---- MODULE Spec2Model ----
(***************************************************************************)
(* Model of the remote-synchronization progress tracker of iroh-test:      *)
(* EventRemoteSync (src/src/doc_subcribe.rs) and the consumer task that    *)
(* subscribe_doc (src/src/store.rs) spawns for it.  One session is         *)
(* modelled; the document's event stream is the environment and may        *)
(* deliver any LiveEvent in any order.                                     *)
(***************************************************************************)
EXTENDS Integers, Sequences, FiniteSets, TLC

(***************************************************************************)
(* Bounds of the model.                                                    *)
(***************************************************************************)
\* number of stream items the consumer task takes in one behaviour
MaxEvents == 4

\* number of stream items of the end-to-end scenario
ScenarioLen == 5

\* number of stream items each of two concurrent sessions takes
TwoLen == 2

\* number of stream items the first dataset's task takes while and after
\* create_files runs
SetupLen == 2

\* number of items get_many yields to one search
MaxEntries == 3

\* number of insert calls in one behaviour
MaxInserts == 2

\* number of regular, not hidden files in the images directory
MaxFiles == 2

(***************************************************************************)
(* u64 arithmetic.  A u64 is four 16-bit limbs, least significant first,   *)
(* so that AtomicU64::fetch_add / fetch_sub wrap exactly at 2^64.          *)
(***************************************************************************)
Limb == 65536

U64Values == [1..4 -> 0..(Limb - 1)]

\* the u64 with value n, for 0 <= n < 2^31
U64(n) == <<n % Limb, (n \div Limb) % Limb, 0, 0>>

Zero == U64(0)

One == U64(1)

\* 2^64 - 1
U64Max == <<Limb - 1, Limb - 1, Limb - 1, Limb - 1>>

\* a + b + cin over the limbs, dropping the carry out of the top limb
AddLimbs(a, b, cin) ==
    LET s1 == a[1] + b[1] + cin
        s2 == a[2] + b[2] + (s1 \div Limb)
        s3 == a[3] + b[3] + (s2 \div Limb)
        s4 == a[4] + b[4] + (s3 \div Limb)
    IN  <<s1 % Limb, s2 % Limb, s3 % Limb, s4 % Limb>>

\* AtomicU64::fetch_add: the new value, wrapping around on overflow
fetch_add(a, b) == AddLimbs(a, b, 0)

\* AtomicU64::fetch_sub: the new value, wrapping around on underflow
\* (a - b = a + ~b + 1 modulo 2^64)
fetch_sub(a, b) ==
    AddLimbs(a, [i \in 1..4 |-> (Limb - 1) - b[i]], 1)

\* a < b as unsigned 64-bit integers
U64Lt(a, b) ==
    \/ a[4] < b[4]
    \/ a[4] = b[4] /\ a[3] < b[3]
    \/ a[4] = b[4] /\ a[3] = b[3] /\ a[2] < b[2]
    \/ a[4] = b[4] /\ a[3] = b[3] /\ a[2] = b[2] /\ a[1] < b[1]

U64Le(a, b) == a = b \/ U64Lt(a, b)

(***************************************************************************)
(* Content hashes and fmt_short.  A hash is 32 bytes; fmt_short is the     *)
(* lower-case hex text of its first 5 bytes.                               *)
(***************************************************************************)
HashLen == 32

ShortLen == 5

HexDigits == <<"0", "1", "2", "3", "4", "5", "6", "7",
               "8", "9", "a", "b", "c", "d", "e", "f">>

RECURSIVE HexLower(_)
HexLower(bytes) ==
    IF bytes = <<>> THEN ""
    ELSE HexDigits[(Head(bytes) \div 16) + 1]
         \o HexDigits[(Head(bytes) % 16) + 1]
         \o HexLower(Tail(bytes))

\* three hashes: H1 and H2 differ only after their first 5 bytes, H3 differs
\* from both in the first byte
H1 == [i \in 1..HashLen |-> 17]

H2 == [i \in 1..HashLen |-> IF i <= ShortLen THEN 17 ELSE 34]

H3 == [i \in 1..HashLen |-> 51]

Hashes == {H1, H2, H3}

\* the short text of each hash of the model, computed once
ShortText == [h \in Hashes |-> HexLower(SubSeq(h, 1, ShortLen))]

fmt_short(hash) == ShortText[hash]

(***************************************************************************)
(* Entry keys are byte strings; from_utf8 accepts the well-formed ones.    *)
(***************************************************************************)
IsCont(b) == b >= 128 /\ b <= 191

RECURSIVE Utf8Valid(_)
Utf8Valid(bytes) ==
    IF bytes = <<>> THEN TRUE
    ELSE LET b == Head(bytes)
             n == Len(bytes)
         IN  IF b <= 127 THEN Utf8Valid(Tail(bytes))
             ELSE IF b >= 194 /\ b <= 223
                  THEN /\ n >= 2
                       /\ IsCont(bytes[2])
                       /\ Utf8Valid(SubSeq(bytes, 3, n))
             ELSE IF b >= 224 /\ b <= 239
                  THEN /\ n >= 3
                       /\ IsCont(bytes[2])
                       /\ (b = 224 => bytes[2] >= 160)
                       /\ (b = 237 => bytes[2] <= 159)
                       /\ IsCont(bytes[3])
                       /\ Utf8Valid(SubSeq(bytes, 4, n))
             ELSE IF b >= 240 /\ b <= 244
                  THEN /\ n >= 4
                       /\ IsCont(bytes[2])
                       /\ (b = 240 => bytes[2] >= 144)
                       /\ (b = 244 => bytes[2] <= 143)
                       /\ IsCont(bytes[3])
                       /\ IsCont(bytes[4])
                       /\ Utf8Valid(SubSeq(bytes, 5, n))
             ELSE FALSE

\* "k1", "k2" and a byte string that is not UTF-8
K1 == <<107, 49>>

K2 == <<107, 50>>

KBad == <<107, 255>>

Keys == {K1, K2, KBad}

(***************************************************************************)
(* Inputs of the event stream.                                             *)
(***************************************************************************)
Sizes == {U64(0), U64(500), U64(1000)}

ContentStatuses == {"Complete", "Incomplete", "Missing"}

\* the name subscribe_doc gives the session of the resource table, and the
\* name the insert handler compares with
TableNames == {"resources", "resource"}

\* bounded capacity of the notification channel
ChannelCapacity == 1000

(***************************************************************************)
(* State.                                                                  *)
(***************************************************************************)
VARIABLES
    hashmap,                \* fmt_short text -> RemoteUpdateData
    remaining_remote_num,   \* u64
    queue_remote_num,       \* u64
    remaining_remote_bytes, \* u64
    queue_remote_bytes,     \* u64
    table_name,
    init_successed,
    init_blob_successed,
    tx,                     \* the mpsc channel behind the Sender
    handle,                 \* Option<JoinHandle>: "None" or "Some"
    task,                   \* the spawned consumer task
    abort_calls,            \* calls of JoinHandle::abort so far
    sent,                   \* the keys given to tx.send so far, in order
    last,                   \* the stream item taken last and the path it took
    nevents,                \* stream items taken so far
    budget,                 \* stream items the behaviour may take in all
    inserted,               \* hashes with an indexed-path InsertRemote seen
    confirmed,              \* hashes whose content was reported local
    pending_send,           \* the removed entry of a handler waiting in send
    pending_event,          \* the event of a handler waiting for the index lock
    at,                     \* where the task is: "idle", "lock" or "send"
    other,                  \* the session and task of another dataset
    focus,                  \* which of the two tasks the variables above show
    tickets,                \* create_files: datasets with an import ticket
    table_pos,              \* create_files: position in TableType::iter()
    result,                 \* create_files: "pending", "Ok" or the Err
    ticket_array,           \* create_files: dataset -> share ticket or ""
    store_state,            \* create_files: dataset -> handle is Some
    tasks,                  \* dataset -> the consumer tasks spawned for it
    phase,                  \* create_files: the await the iteration is at
    loaded,                 \* create_files: writes of the iteration's load
    load_seen,              \* InsertLocal items of the load taken so far
    entries,                \* search: the items get_many yields, in order
    search_result,          \* search: "none" or what the call returned
    log,                    \* the revisions written, each with its document
    insert_result,          \* "none" or what the last insert call returned
    calls                   \* insert calls made so far

counters == <<remaining_remote_num, remaining_remote_bytes,
              queue_remote_num, queue_remote_bytes>>

flags == <<init_successed, init_blob_successed>>

session == <<hashmap, counters, table_name, flags, tx, handle>>

ghosts == <<inserted, confirmed>>

\* the state of one session and its task
\* what a handler holds while it waits in an await, and where it waits
suspended == <<pending_send, pending_event, at>>

own == <<session, task, abort_calls, sent, last, nevents, budget, ghosts,
         suspended>>

registry == <<tickets, table_pos, result, ticket_array, store_state, tasks,
              phase, loaded, load_seen>>

facade == <<entries, search_result, log, insert_result, calls>>

vars == <<own, other, focus, registry, facade>>

\* TableType, in the order of TableType::iter()
TableOrder == <<"folder", "node", "resource", "resource1", "resource2",
                "resource3">>

TableTypes == {TableOrder[i] : i \in DOMAIN TableOrder}

\* the name create_files gives the session of a dataset
SessionName(t) ==
    CASE t = "resource"  -> "resources"
      [] t = "folder"    -> "folders"
      [] t = "node"      -> "nodes"
      [] t = "resource1" -> "resources1"
      [] t = "resource2" -> "resources2"
      [] t = "resource3" -> "resources3"

\* the datasets create_files fills right after subscribing, when it created
\* them itself
LoadedTables == {"resource", "folder", "resource1"}

\* create_files has not been entered
RegistryIdle ==
    /\ tickets = {}
    /\ table_pos = 1
    /\ result = "pending"
    /\ ticket_array = [t \in TableTypes |-> ""]
    /\ store_state = [t \in TableTypes |-> FALSE]
    /\ tasks = [t \in TableTypes |-> <<>>]
    /\ phase = "new"
    /\ loaded = 0
    /\ load_seen = 0

\* no call of search or of an insert operation has been made
FacadeIdle ==
    /\ entries = <<>>
    /\ search_result = [status |-> "none"]
    /\ log = <<>>
    /\ insert_result = [op |-> "none"]
    /\ calls = 0

\* no handler is waiting in tx.send
NoSend == [key |-> <<>>, size |-> Zero]

\* no handler is waiting in hashmap_store.lock()
NoEvent == [type |-> "None"]

\* EventRemoteSync::new and the spawn, as the value of other
FreshOther(name, b) ==
    [hashmap |-> <<>>,
     remaining_remote_num |-> Zero, queue_remote_num |-> Zero,
     remaining_remote_bytes |-> Zero, queue_remote_bytes |-> Zero,
     table_name |-> name,
     init_successed |-> FALSE, init_blob_successed |-> FALSE,
     tx |-> [rx_dropped |-> TRUE, buf |-> <<>>],
     handle |-> "None", task |-> "running", abort_calls |-> 0,
     sent |-> <<>>,
     last |-> [type |-> "None", path |-> "new", hash |-> <<>>, size |-> Zero],
     nevents |-> 0, budget |-> b, inserted |-> {}, confirmed |-> {},
     pending_send |-> NoSend, pending_event |-> NoEvent, at |-> "idle"]

\* the variables of the task in focus, as a value of the shape of other
OwnRecord ==
    [hashmap |-> hashmap,
     remaining_remote_num |-> remaining_remote_num,
     queue_remote_num |-> queue_remote_num,
     remaining_remote_bytes |-> remaining_remote_bytes,
     queue_remote_bytes |-> queue_remote_bytes,
     table_name |-> table_name,
     init_successed |-> init_successed,
     init_blob_successed |-> init_blob_successed,
     tx |-> tx, handle |-> handle, task |-> task,
     abort_calls |-> abort_calls, sent |-> sent, last |-> last,
     nevents |-> nevents, budget |-> budget,
     inserted |-> inserted, confirmed |-> confirmed,
     pending_send |-> pending_send, pending_event |-> pending_event,
     at |-> at]

\* the state of task i of the two
Sess(i) == IF focus = i THEN OwnRecord ELSE other


\* EventRemoteSync::new followed by the spawn in subscribe_doc.  The
\* Receiver half of the channel is a local of new and is dropped when new
\* returns; the JoinHandle of the spawned task is never stored.
Fresh ==
    /\ hashmap = <<>>
    /\ remaining_remote_num = Zero
    /\ queue_remote_num = Zero
    /\ remaining_remote_bytes = Zero
    /\ queue_remote_bytes = Zero
    /\ init_successed = FALSE
    /\ init_blob_successed = FALSE
    /\ tx = [rx_dropped |-> TRUE, buf |-> <<>>]
    /\ handle = "None"
    /\ task = "running"
    /\ abort_calls = 0
    /\ sent = <<>>
    /\ last = [type |-> "None", path |-> "new", hash |-> <<>>, size |-> Zero]
    /\ nevents = 0
    /\ inserted = {}
    /\ confirmed = {}
    /\ pending_send = NoSend
    /\ pending_event = NoEvent
    /\ at = "idle"

\* a session of either name, with the stream of the main specification
Init ==
    /\ Fresh
    /\ table_name \in TableNames
    /\ budget = MaxEvents
    /\ focus = 1
    /\ other = FreshOther("nodes", 0)
    /\ RegistryIdle
    /\ FacadeIdle

(***************************************************************************)
(* The events of the stream (iroh_docs::engine::LiveEvent).                *)
(***************************************************************************)
InsertRemoteEvents ==
    [type : {"InsertRemote"}, content_status : ContentStatuses,
     hash : Hashes, key : Keys, size : Sizes]

\* the InsertRemote events of an empty entry (a deletion marker)
TombstoneEvents == {ev \in InsertRemoteEvents : ev.size = Zero}

ContentReadyEvents == [type : {"ContentReady"}, hash : Hashes]

\* the events that only print
InfoEventTypes == {"InsertLocal", "NeighborUp", "NeighborDown"}

\* the mpsc Sender: send fails at once when the Receiver is gone, queues the
\* value when there is room, and otherwise waits
CanSend(ch) == ch.rx_dropped \/ Len(ch.buf) < ChannelCapacity

tx_send(ch, v) ==
    IF ch.rx_dropped THEN ch
    ELSE [ch EXCEPT !.buf = Append(ch.buf, v)]

\* HashMap::insert(k, v) in the place of entry(k).or_insert(v)
or_insert_Overwrite(map, k, v) ==
    [x \in (DOMAIN map) \cup {k} |-> IF x = k THEN v ELSE map[x]]

\* HashMap::entry(k).or_insert(v)
or_insert(map, k, v) ==
    IF k \in DOMAIN map THEN map ELSE map @@ (k :> v)

\* HashMap::remove_entry(k)
remove_entry(map, k) == [x \in (DOMAIN map) \ {k} |-> map[x]]

\* the consumer loop of subscribe_doc takes the next item of the stream;
\* the task owns its session and its stream and touches nothing else
TakeItem(type, path, hash, size) ==
    /\ nevents' = nevents + 1
    /\ last' = [type |-> type, path |-> path, hash |-> hash, size |-> size]
    /\ budget' = budget
    /\ UNCHANGED <<other, focus, registry, facade>>

\* the task is alive: running, or running with its cancellation asked for
Alive == task \in {"running", "cancelling"}

\* the loop is in events.next() (at most budget items in one behaviour)
CanTake == Alive /\ at = "idle" /\ nevents < budget

\* InsertRemotePath without the size check: an empty entry is indexed
InsertRemotePath_NoTombstone(ev) ==
    IF table_name = "resource" THEN "excluded"
    ELSE IF ~Utf8Valid(ev.key) THEN "panic"
    ELSE IF ~init_successed THEN "counted"
    ELSE "uncounted"

\* whether the handler finds an entry when it looks the hash up
HasEntry(hash) == fmt_short(hash) \in DOMAIN hashmap

\* InsertRemotePath without the test of the table name
InsertRemotePath_NoExclusion(ev) ==
    IF ~Utf8Valid(ev.key) THEN "panic"
    ELSE IF ev.size = Zero THEN "tombstone"
    ELSE IF ~init_successed THEN "counted"
    ELSE "uncounted"

\* which way an InsertRemote goes through the handler
InsertRemotePath(ev) ==
    IF table_name = "resource" THEN "excluded"
    ELSE IF ~Utf8Valid(ev.key) THEN "panic"
    ELSE IF ev.size = Zero THEN "tombstone"
    ELSE IF ~init_successed THEN "counted"
    ELSE "uncounted"

\* LiveEvent::InsertRemote, up to hashmap_store.lock().await: the item is
\* taken, then the test of the table name, from_utf8(..).unwrap() and the
\* test of the size.  The three early ends (return, panic, return) are
\* complete in this step; otherwise the handler waits for the index lock,
\* holding the event.
InsertRemote(ev) ==
    LET path == InsertRemotePath(ev)
        indexed == path \in {"counted", "uncounted"}
    IN  /\ CanTake
        /\ TakeItem("InsertRemote", IF indexed THEN "locking" ELSE path,
                    ev.hash, ev.size)
        /\ task' = IF path = "panic" THEN "panicked" ELSE task
        /\ IF indexed
           THEN /\ at' = "lock"
                /\ pending_event' = ev
           ELSE UNCHANGED <<at, pending_event>>
        /\ UNCHANGED <<session, abort_calls, sent, ghosts, pending_send>>

\* InsertRemoteLocked on an index that both sessions share
InsertRemoteLocked_SharedIndex ==
    LET ev   == pending_event
        path == InsertRemotePath(ev)
        k    == fmt_short(ev.hash)
    IN  /\ Alive
        /\ at = "lock"
        /\ pending_event.type = "InsertRemote"
        /\ hashmap' = or_insert(hashmap, k,
                                [key |-> ev.key, size |-> ev.size,
                                 table_name |-> table_name])
        /\ other' = [other EXCEPT !.hashmap = hashmap']
        /\ IF path = "counted"
           THEN /\ remaining_remote_num' = fetch_add(remaining_remote_num, One)
                /\ remaining_remote_bytes' =
                      fetch_add(remaining_remote_bytes, ev.size)
                /\ queue_remote_num' = fetch_add(queue_remote_num, One)
                /\ queue_remote_bytes' = fetch_add(queue_remote_bytes, ev.size)
           ELSE UNCHANGED counters
        /\ inserted' = inserted \cup {ev.hash}
        /\ confirmed' = IF ev.content_status = "Complete"
                        THEN confirmed \cup {ev.hash}
                        ELSE confirmed
        /\ last' = [last EXCEPT !.path = path]
        /\ at' = "idle"
        /\ pending_event' = NoEvent
        /\ UNCHANGED <<table_name, flags, tx, handle, task, abort_calls, sent,
                       nevents, budget, pending_send>>
        /\ UNCHANGED <<focus, registry, facade>>

\* LiveEvent::InsertRemote, from the return of hashmap_store.lock().await:
\* entry(..).or_insert(..), then the four fetch_add when init_successed is
\* false
InsertRemoteLocked ==
    LET ev   == pending_event
        path == InsertRemotePath(ev)
        k    == fmt_short(ev.hash)
    IN  /\ Alive
        /\ at = "lock"
        /\ pending_event.type = "InsertRemote"
        /\ hashmap' = or_insert(hashmap, k,
                                [key |-> ev.key, size |-> ev.size,
                                 table_name |-> table_name])
        /\ IF path = "counted"
           THEN /\ remaining_remote_num' = fetch_add(remaining_remote_num, One)
                /\ remaining_remote_bytes' =
                      fetch_add(remaining_remote_bytes, ev.size)
                /\ queue_remote_num' = fetch_add(queue_remote_num, One)
                /\ queue_remote_bytes' = fetch_add(queue_remote_bytes, ev.size)
           ELSE UNCHANGED counters
        /\ inserted' = inserted \cup {ev.hash}
        /\ confirmed' = IF ev.content_status = "Complete"
                        THEN confirmed \cup {ev.hash}
                        ELSE confirmed
        /\ last' = [last EXCEPT !.path = path]
        /\ at' = "idle"
        /\ pending_event' = NoEvent
        /\ UNCHANGED <<table_name, flags, tx, handle, task, abort_calls, sent,
                       nevents, budget, pending_send>>
        /\ UNCHANGED <<other, focus, registry, facade>>

\* ContentReadyPath without the test of init_blob_successed: an indexed hash
\* is always notified and subtracted
ContentReadyPath_IgnoresFlag(ev) ==
    IF fmt_short(ev.hash) \notin DOMAIN hashmap THEN "absent"
    ELSE "notified"

\* which way a ContentReady goes through the handler
ContentReadyPath(ev) ==
    IF fmt_short(ev.hash) \notin DOMAIN hashmap THEN "absent"
    ELSE IF ~init_blob_successed THEN "notified"
    ELSE "frozen"

\* LiveEvent::ContentReady, up to hashmap_store.lock().await: the item is
\* taken and the handler waits for the index lock, holding the event
ContentReady(ev) ==
    /\ CanTake
    /\ TakeItem("ContentReady", "locking", ev.hash, Zero)
    /\ at' = "lock"
    /\ pending_event' = ev
    /\ UNCHANGED <<session, task, abort_calls, sent, ghosts, pending_send>>

\* LiveEvent::ContentReady, from the return of hashmap_store.lock().await
\* to the await of tx.send: the lookup, the early return, remove_entry and
\* the test of init_blob_successed.  When the key is to be sent the handler
\* is in tx.send(..).await with the entry already removed and the queue
\* counters not yet subtracted.
ContentReadyLocked ==
    LET ev   == pending_event
        path == ContentReadyPath(ev)
        k    == fmt_short(ev.hash)
    IN  /\ Alive
        /\ at = "lock"
        /\ pending_event.type = "ContentReady"
        /\ hashmap' = IF path = "absent" THEN hashmap
                      ELSE remove_entry(hashmap, k)
        /\ IF path = "notified"
           THEN /\ at' = "send"
                /\ pending_send' = [key |-> hashmap[k].key,
                                    size |-> hashmap[k].size]
                /\ last' = [last EXCEPT !.path = "sending"]
           ELSE /\ at' = "idle"
                /\ pending_send' = pending_send
                /\ last' = [last EXCEPT !.path = path]
        /\ pending_event' = NoEvent
        /\ confirmed' = confirmed \cup {ev.hash}
        /\ UNCHANGED <<counters, table_name, flags, tx, handle, task,
                       abort_calls, sent, nevents, budget, inserted>>
        /\ UNCHANGED <<other, focus, registry, facade>>

\* LiveEvent::ContentReady, from the return of tx.send(..).await on: the
\* send has failed (Receiver gone) or has queued the key (room in the
\* channel), then the two fetch_sub.  While the channel is full and the
\* Receiver alive the handler stays in the await.
ContentReadySent ==
    /\ Alive
    /\ at = "send"
    /\ CanSend(tx)
    /\ tx' = tx_send(tx, pending_send.key)
    /\ sent' = Append(sent, pending_send.key)
    /\ queue_remote_num' = fetch_sub(queue_remote_num, One)
    /\ queue_remote_bytes' = fetch_sub(queue_remote_bytes, pending_send.size)
    /\ at' = "idle"
    /\ pending_send' = NoSend
    /\ last' = [last EXCEPT !.path = "notified"]
    /\ UNCHANGED <<hashmap, remaining_remote_num, remaining_remote_bytes,
                   table_name, flags, handle, task, abort_calls, nevents,
                   budget, ghosts, pending_event>>
    /\ UNCHANGED <<other, focus, registry, facade>>

\* PendingContentReady that stores both flags
PendingContentReady_SetsBoth ==
    /\ CanTake
    /\ TakeItem("PendingContentReady",
                IF init_blob_successed THEN "again" ELSE "first", <<>>, Zero)
    /\ init_blob_successed' = TRUE
    /\ init_successed' = TRUE
    /\ IF handle # "None"
       THEN /\ abort_calls' = abort_calls + 1
            /\ handle' = "None"
            /\ \E mine \in BOOLEAN :
                  task' = IF mine THEN "cancelling" ELSE task
       ELSE UNCHANGED <<abort_calls, task, handle>>
    /\ UNCHANGED <<hashmap, counters, table_name, tx, sent, ghosts,
                   suspended>>

\* LiveEvent::PendingContentReady.  When a handle is held, abort() is called
\* on it and the field is set to None.  abort() only asks for the
\* cancellation of the task the handle belongs to: if that is the task of
\* this loop, the task goes on taking items until it next gives control
\* back to the runtime; if it is another task, this loop is not touched.
PendingContentReady ==
    LET pre_init_blob_successed == init_blob_successed
    IN  /\ CanTake
        /\ TakeItem("PendingContentReady",
                    IF pre_init_blob_successed THEN "again" ELSE "first",
                    <<>>, Zero)
        /\ init_blob_successed' = TRUE
        /\ IF handle # "None"
           THEN /\ abort_calls' = abort_calls + 1
                /\ handle' = "None"
                /\ \E mine \in BOOLEAN :
                      task' = IF mine THEN "cancelling" ELSE task
           ELSE UNCHANGED <<abort_calls, task, handle>>
        /\ UNCHANGED <<hashmap, counters, table_name, init_successed, tx,
                       sent, ghosts, suspended>>

\* a task whose cancellation was asked for has no item ready in
\* events.next().await (or yields in another await): the runtime drops it.
\* No session of the program holds a handle, so no behaviour of the
\* specifications below asks for a cancellation.
Cancelled ==
    /\ task = "cancelling"
    /\ task' = "aborted"
    /\ UNCHANGED <<session, abort_calls, sent, last, nevents, budget, ghosts,
                   suspended>>
    /\ UNCHANGED <<other, focus, registry, facade>>

\* LiveEvent::SyncFinished
SyncFinished ==
    /\ CanTake
    /\ TakeItem("SyncFinished", "store", <<>>, Zero)
    /\ init_successed' = TRUE
    /\ UNCHANGED <<hashmap, counters, table_name, init_blob_successed, tx,
                   handle, task, abort_calls, sent, ghosts, suspended>>

\* InfoEvent that counts the item into the queue
InfoEvent_Counts(type) ==
    /\ CanTake
    /\ TakeItem(type, "print", <<>>, Zero)
    /\ queue_remote_num' = fetch_add(queue_remote_num, One)
    /\ UNCHANGED <<hashmap, remaining_remote_num, remaining_remote_bytes,
                   queue_remote_bytes, table_name, flags, tx, handle,
                   task, abort_calls, sent, ghosts, suspended>>

\* LiveEvent::InsertLocal, NeighborUp, NeighborDown
InfoEvent(type) ==
    /\ CanTake
    /\ TakeItem(type, "print", <<>>, Zero)
    /\ UNCHANGED <<session, task, abort_calls, sent, ghosts, suspended>>

\* the stream ends or yields an error item: the while-let loop is left
StreamStop(item) ==
    /\ CanTake
    /\ TakeItem(item, "loop_exit", <<>>, Zero)
    /\ task' = "ended"
    /\ UNCHANGED <<session, abort_calls, sent, ghosts, suspended>>

Next ==
    \/ \E ev \in InsertRemoteEvents : InsertRemote(ev)
    \/ \E ev \in ContentReadyEvents : ContentReady(ev)
    \/ InsertRemoteLocked
    \/ ContentReadyLocked
    \/ ContentReadySent
    \/ PendingContentReady
    \/ SyncFinished
    \/ \E type \in InfoEventTypes : InfoEvent(type)
    \/ \E item \in {"StreamNone", "StreamErr"} : StreamStop(item)

Spec == Init /\ [][Next]_vars

(***************************************************************************)
(* The stream with entries of very large declared length.  content_len()   *)
(* is the u64 the remote author wrote into the record.                     *)
(***************************************************************************)
\* 2^63
Huge == <<0, 0, 0, Limb \div 2>>

WideInsertEvents ==
    [type : {"InsertRemote"}, content_status : {"Missing"},
     hash : Hashes, key : {K1, K2}, size : {U64(500), Huge}]

NextWide ==
    \/ \E ev \in WideInsertEvents : InsertRemote(ev)
    \/ \E ev \in ContentReadyEvents : ContentReady(ev)
    \/ InsertRemoteLocked
    \/ ContentReadyLocked
    \/ ContentReadySent
    \/ PendingContentReady
    \/ SyncFinished

SpecWide == Init /\ [][NextWide]_vars

(***************************************************************************)
(* The end-to-end scenario on a fresh tracked session: two inserts of      *)
(* sizes 500 and 1000 under two digests, the first digest ready, the       *)
(* all-clear, the second digest ready.                                     *)
(***************************************************************************)
InitScenario ==
    /\ Fresh
    /\ table_name \in {SessionName(t) : t \in TableTypes}
    /\ budget = ScenarioLen
    /\ focus = 1
    /\ other = FreshOther("nodes", 0)
    /\ RegistryIdle
    /\ FacadeIdle

\* RemoteInsert{D1, 500, k1}
ScenarioInsert1 ==
    /\ nevents = 0
    /\ \E ev \in InsertRemoteEvents :
          /\ ev.size = U64(500)
          /\ ev.key = K1
          /\ ev.content_status = "Missing"
          /\ InsertRemote(ev)

\* RemoteInsert{D2, 1000, k2}, D2 another digest than D1
ScenarioInsert2 ==
    /\ nevents = 1
    /\ \E ev \in InsertRemoteEvents :
          /\ ev.size = U64(1000)
          /\ ev.key = K2
          /\ ev.content_status = "Missing"
          /\ ev.hash # last.hash
          /\ InsertRemote(ev)

\* ContentReady{D1}
ScenarioReady1 ==
    /\ nevents = 2
    /\ \E ev \in ContentReadyEvents :
          /\ ev.hash \in inserted
          /\ ev.hash # last.hash
          /\ ContentReady(ev)

ScenarioAllClear ==
    /\ nevents = 3
    /\ PendingContentReady

\* ContentReady{D2}
ScenarioReady2 ==
    /\ nevents = 4
    /\ \E ev \in ContentReadyEvents :
          /\ ev.hash \in inserted
          /\ ev.hash \notin confirmed
          /\ ContentReady(ev)

NextScenario ==
    \/ ScenarioInsert1
    \/ ScenarioInsert2
    \/ ScenarioReady1
    \/ InsertRemoteLocked
    \/ ContentReadyLocked
    \/ ContentReadySent
    \/ ScenarioAllClear
    \/ ScenarioReady2

SpecScenario == InitScenario /\ [][NextScenario]_vars

(***************************************************************************)
(* Two datasets: two sessions, each moved into its own spawned task.  The  *)
(* runtime runs the tasks in any order; Switch is the point where it goes  *)
(* from one task to the other.                                             *)
(***************************************************************************)
Switch ==
    /\ focus' = 3 - focus
    /\ other' = OwnRecord
    /\ hashmap' = other.hashmap
    /\ remaining_remote_num' = other.remaining_remote_num
    /\ queue_remote_num' = other.queue_remote_num
    /\ remaining_remote_bytes' = other.remaining_remote_bytes
    /\ queue_remote_bytes' = other.queue_remote_bytes
    /\ table_name' = other.table_name
    /\ init_successed' = other.init_successed
    /\ init_blob_successed' = other.init_blob_successed
    /\ tx' = other.tx
    /\ handle' = other.handle
    /\ task' = other.task
    /\ abort_calls' = other.abort_calls
    /\ sent' = other.sent
    /\ last' = other.last
    /\ nevents' = other.nevents
    /\ budget' = other.budget
    /\ inserted' = other.inserted
    /\ confirmed' = other.confirmed
    /\ pending_send' = other.pending_send
    /\ pending_event' = other.pending_event
    /\ at' = other.at
    /\ UNCHANGED <<registry, facade>>

InitTwo ==
    /\ Fresh
    /\ table_name \in TableNames
    /\ budget = TwoLen
    /\ focus = 1
    /\ other \in {FreshOther(n, TwoLen) : n \in TableNames}
    /\ RegistryIdle
    /\ FacadeIdle

TwoInsertEvents ==
    [type : {"InsertRemote"}, content_status : {"Missing"},
     hash : {H1, H3}, key : {K1, KBad}, size : {U64(0), U64(500)}]

NextTwo ==
    \/ \E ev \in TwoInsertEvents : InsertRemote(ev)
    \/ \E ev \in ContentReadyEvents : ContentReady(ev)
    \/ InsertRemoteLocked
    \/ ContentReadyLocked
    \/ ContentReadySent
    \/ PendingContentReady
    \/ SyncFinished
    \/ Switch

SpecTwo == InitTwo /\ [][NextTwo]_vars

(***************************************************************************)
(* The insert operations of the entity facade.  An entity is given by the  *)
(* byte lengths of its fields; bincode writes a String or a Vec<u8> as an  *)
(* 8-byte length followed by the bytes.                                    *)
(***************************************************************************)
MAX_FILE_SIZE == 150 * 1024 * 1024

\* bytes of the length prefix bincode writes before a String or Vec<u8>
LenPrefix == 8

\* bytes of Uuid::new_v4().to_string()
UuidLen == 36

\* bincode::serialize(Resource {id, name, blob}).len()
ResourceLen(name_len, blob_len) ==
    (LenPrefix + UuidLen) + (LenPrefix + name_len) + (LenPrefix + blob_len)

\* bincode::serialize(Folder {folder_id, folder_name}).len()
FolderLen(name_len) == (LenPrefix + UuidLen) + (LenPrefix + name_len)

\* as_bytes(): ensure!(buf.len() < MAX_FILE_SIZE, ..); TRUE when Ok
as_bytes(len) == len < MAX_FILE_SIZE

\* the lengths tried for the field that carries the payload, so that the
\* serialized entity is small, one below, at, or one above the maximum
PayloadLens(fixed) ==
    {0, MAX_FILE_SIZE - fixed - 1, MAX_FILE_SIZE - fixed,
     MAX_FILE_SIZE - fixed + 1}

NameLen == 1

\* the id of the n-th entity made: a fresh uuid text
Uuid(n) == <<n>>

CanInsert == calls < MaxInserts

\* IrohCls::insert_bytes(key, content) of the table of document doc:
\* doc.set_bytes(..)?, no other test
insert_bytes(doc, op, key, len, written) ==
    /\ log' = IF written
              THEN Append(log, [doc |-> doc, key |-> key, len |-> len])
              ELSE log
    /\ insert_result' = [op |-> op, len |-> len,
                         status |-> IF written THEN "Ok" ELSE "WriteErr"]

\* the call returns the error of as_bytes()? before insert_bytes is called
SizeLimitExceeded(op, len) ==
    /\ log' = log
    /\ insert_result' = [op |-> op, len |-> len,
                         status |-> "SizeLimitExceeded"]

\* Resources::add_file(name, blob) on the table of document doc
add_file(doc, blob_len, written) ==
    /\ calls' = calls + 1
    /\ LET len == ResourceLen(NameLen, blob_len)
       IN  IF as_bytes(len)
           THEN insert_bytes(doc, "add_file", Uuid(calls + 1), len, written)
           ELSE SizeLimitExceeded("add_file", len)
    /\ UNCHANGED <<entries, search_result>>

\* Folders::insert_folder(folder_name) on the table of document doc
insert_folder(doc, name_len, written) ==
    /\ calls' = calls + 1
    /\ LET len == FolderLen(name_len)
       IN  IF as_bytes(len)
           THEN insert_bytes(doc, "insert_folder", Uuid(calls + 1), len,
                             written)
           ELSE SizeLimitExceeded("insert_folder", len)
    /\ UNCHANGED <<entries, search_result>>

\* a call of add_file from outside create_files
AddFile(blob_len, written) ==
    /\ CanInsert
    /\ add_file("resource", blob_len, written)
    /\ UNCHANGED <<own, other, focus, registry>>

\* a call of insert_folder from outside create_files
InsertFolder(name_len, written) ==
    /\ CanInsert
    /\ insert_folder("folder", name_len, written)
    /\ UNCHANGED <<own, other, focus, registry>>

\* IrohProperties::insert_bytes(key, content) called on the table itself
InsertBytes(key, len, written) ==
    /\ CanInsert
    /\ calls' = calls + 1
    /\ insert_bytes("node", "insert_bytes", key, len, written)
    /\ UNCHANGED <<entries, search_result>>
    /\ UNCHANGED <<own, other, focus, registry>>

NextInsert ==
    \/ \E b \in PayloadLens(ResourceLen(NameLen, 0)), w \in BOOLEAN :
          AddFile(b, w)
    \/ \E n \in PayloadLens(FolderLen(0)), w \in BOOLEAN :
          InsertFolder(n, w)
    \/ \E k \in {K1, K2}, w \in BOOLEAN,
          n \in {0, MAX_FILE_SIZE - 1, MAX_FILE_SIZE, MAX_FILE_SIZE + 1} :
          InsertBytes(k, n, w)

SpecInsert == Init /\ [][NextInsert]_vars

(***************************************************************************)
(* create_files: one pass over the six datasets.  An iteration awaits      *)
(* X::new, then the subscription inside subscribe_doc, then each write of  *)
(* its load; the task is spawned in between.  phase names the place the    *)
(* iteration is at: "new", "subscribe", "ticket" or "load".                *)
(***************************************************************************)
\* subscribe_doc that spawns the task before it asks for the subscription
subscribe_doc_SpawnFirst(t, name, subscribed) ==
    tasks' = [tasks EXCEPT ![t] =
                 Append(@, [session |-> name, stream |-> t,
                            join_handle |-> "dropped"])]

\* subscribe_doc that spawns a second task on a second subscription
subscribe_doc_Twice(t, name, subscribed) ==
    tasks' = IF subscribed
             THEN [tasks EXCEPT ![t] =
                      @ \o <<[session |-> name, stream |-> t,
                              join_handle |-> "dropped"],
                             [session |-> name, stream |-> t,
                              join_handle |-> "dropped"]>>]
             ELSE tasks

\* subscribe_doc(table, name): subscribe()? returns the error before the
\* session is made and the task spawned; otherwise one task is spawned that
\* owns the new session and the subscription of the table's own document.
\* The JoinHandle of the spawn is a local that is dropped on return.
subscribe_doc(t, name, subscribed) ==
    tasks' = IF subscribed
             THEN [tasks EXCEPT ![t] =
                      Append(@, [session |-> name, stream |-> t,
                                 join_handle |-> "dropped"])]
             ELSE tasks

\* the dataset of the current iteration
CurrentTable == TableOrder[table_pos]

InLoop == result = "pending" /\ table_pos \in DOMAIN TableOrder

\* OpenFails that also stops the tasks spawned in earlier iterations
OpenFails_Rollback ==
    /\ InLoop
    /\ phase = "new"
    /\ result' = "ErrOpen"
    /\ tasks' = [t \in TableTypes |-> <<>>]
    /\ UNCHANGED <<tickets, table_pos, ticket_array, store_state, phase,
                   loaded, load_seen>>
    /\ UNCHANGED <<own, other, focus, facade>>

\* X::new(&doc_ticket, iroh)? fails (import or create, author, share)
OpenFails ==
    /\ InLoop
    /\ phase = "new"
    /\ result' = "ErrOpen"
    /\ UNCHANGED <<tickets, table_pos, ticket_array, store_state, tasks,
                   phase, loaded, load_seen>>
    /\ UNCHANGED <<own, other, focus, facade>>

\* X::new(&doc_ticket, iroh) returns the table; subscribe_doc is entered
\* and asks the document for its subscription
OpenOk ==
    /\ InLoop
    /\ phase = "new"
    /\ phase' = "subscribe"
    /\ UNCHANGED <<tickets, table_pos, result, ticket_array, store_state,
                   tasks, loaded, load_seen>>
    /\ UNCHANGED <<own, other, focus, facade>>

\* subscribe_doc(..)? fails
SubscribeFails ==
    /\ InLoop
    /\ phase = "subscribe"
    /\ subscribe_doc(CurrentTable, SessionName(CurrentTable), FALSE)
    /\ result' = "ErrSubscribe"
    /\ UNCHANGED <<tickets, table_pos, ticket_array, store_state, phase,
                   loaded, load_seen>>
    /\ UNCHANGED <<own, other, focus, facade>>

\* X::new that shares the document whether or not it was imported
NewTicket_Always(t) == "Some"

\* the ticket field X::new gives the table: the document is shared only
\* when no import ticket was given
NewTicket(t) == IF t \in tickets THEN "None" ELSE "Some"

\* IrohCls::ticket(): the text of the share ticket, "" when there is none
ticket(opt) == IF opt = "Some" THEN "ticket" ELSE ""

\* the share ticket text create_files stores for a dataset
TicketText(t) == ticket(NewTicket(t))

\* the iteration of the current dataset has a load: resource, folder and
\* resource1, if doc_ticket.is_none()
HasLoad == CurrentTable \in LoadedTables /\ CurrentTable \notin tickets

\* the subscription is there: subscribe_doc makes the session, spawns the
\* task and returns.  #[tokio::main] runs the tasks on several threads, so
\* from here on the new task runs beside the rest of the iteration.
SubscribeOk ==
    /\ InLoop
    /\ phase = "subscribe"
    /\ subscribe_doc(CurrentTable, SessionName(CurrentTable), TRUE)
    /\ phase' = "ticket"
    /\ UNCHANGED <<tickets, table_pos, result, ticket_array, store_state,
                   loaded, load_seen>>
    /\ UNCHANGED <<own, other, focus, facade>>

\* ticket_array[n] = ticket_share_str.clone(), after subscribe_doc
StoreTicket ==
    /\ InLoop
    /\ phase = "ticket"
    /\ ticket_array' = [ticket_array EXCEPT ![CurrentTable] = TicketText(CurrentTable)]
    /\ phase' = "load"
    /\ loaded' = 0
    /\ UNCHANGED <<tickets, table_pos, result, store_state, tasks, load_seen>>
    /\ UNCHANGED <<own, other, focus, facade>>

\* for i in 1..10: the folder load makes nine calls of insert_folder
FolderCount == 9

\* the bytes of format!("New Folder{}", i) for i in 1..10
NewFolderLen == 11

\* the blob lengths of the files tried in the images directory: an empty
\* file and one that is too long to be stored
LoadBlobLens == {0, MAX_FILE_SIZE}

InLoad == InLoop /\ phase = "load"

\* the load has a further write to make: the next folder, or a further
\* regular file that is not hidden in the images directory
MoreToLoad ==
    /\ HasLoad
    /\ IF CurrentTable = "folder" THEN loaded < FolderCount
       ELSE loaded < MaxFiles

\* the next call of the load: folders.insert_folder(format!(..)) or
\* resources.add_file(file_name, file_content)
LoadCall(blob_len, written) ==
    IF CurrentTable = "folder"
    THEN insert_folder(CurrentTable, NewFolderLen, written)
    ELSE add_file(CurrentTable, blob_len, written)

\* one write of the load returns Ok: the revision is in the document and
\* the load goes on
LoadWrite(blob_len) ==
    /\ InLoad
    /\ MoreToLoad
    /\ LoadCall(blob_len, TRUE)
    /\ insert_result'.status = "Ok"
    /\ loaded' = loaded + 1
    /\ UNCHANGED <<tickets, table_pos, result, ticket_array, store_state,
                   tasks, phase, load_seen>>
    /\ UNCHANGED <<own, other, focus>>

\* get_images_directory()?, the missing directory, read_dir, entry? or
\* fs::read fails: the error is returned, the writes made so far stay
LoadDirFails ==
    /\ InLoad
    /\ HasLoad
    /\ CurrentTable # "folder"
    /\ result' = "ErrLoad"
    /\ UNCHANGED <<tickets, table_pos, ticket_array, store_state, tasks,
                   phase, loaded, load_seen>>
    /\ UNCHANGED <<own, other, focus, facade>>

\* a write of the load fails (as_bytes()? or set_bytes): the ? returns the
\* error; the revisions of the writes before it are in the document
LoadFails(blob_len, written) ==
    /\ InLoad
    /\ MoreToLoad
    /\ LoadCall(blob_len, written)
    /\ insert_result'.status # "Ok"
    /\ result' = "ErrLoad"
    /\ UNCHANGED <<tickets, table_pos, ticket_array, store_state, tasks,
                   phase, loaded, load_seen>>
    /\ UNCHANGED <<own, other, focus>>

\* the iteration has no load, or the load has made its last write:
\* store_state.x = Arc::new(RwLock::new(Some(table))) and the loop goes to
\* the next dataset
TableDone ==
    /\ InLoad
    /\ (HasLoad /\ CurrentTable = "folder") => loaded = FolderCount
    /\ store_state' = [store_state EXCEPT ![CurrentTable] = TRUE]
    /\ table_pos' = table_pos + 1
    /\ phase' = "new"
    /\ loaded' = 0
    /\ UNCHANGED <<tickets, result, ticket_array, tasks, load_seen>>
    /\ UNCHANGED <<own, other, focus, facade>>

\* after the loop: Ok(store_state)
Finish ==
    /\ result = "pending"
    /\ table_pos \notin DOMAIN TableOrder
    /\ result' = "Ok"
    /\ UNCHANGED <<tickets, table_pos, ticket_array, store_state, tasks,
                   phase, loaded, load_seen>>
    /\ UNCHANGED <<own, other, focus, facade>>

\* create_files(iroh, tickets) is entered with any set of import tickets
InitRegistry ==
    /\ Fresh
    /\ table_name = "resources"
    /\ budget = 0
    /\ focus = 1
    /\ other = FreshOther("nodes", 0)
    /\ tickets \in SUBSET TableTypes
    /\ table_pos = 1
    /\ result = "pending"
    /\ ticket_array = [t \in TableTypes |-> ""]
    /\ store_state = [t \in TableTypes |-> FALSE]
    /\ tasks = [t \in TableTypes |-> <<>>]
    /\ phase = "new"
    /\ loaded = 0
    /\ load_seen = 0
    /\ FacadeIdle

NextRegistry ==
    \/ OpenFails
    \/ OpenOk
    \/ SubscribeFails
    \/ SubscribeOk
    \/ StoreTicket
    \/ \E b \in LoadBlobLens : LoadWrite(b)
    \/ LoadDirFails
    \/ \E b \in LoadBlobLens, w \in BOOLEAN : LoadFails(b, w)
    \/ TableDone
    \/ Finish

SpecRegistry == InitRegistry /\ [][NextRegistry]_vars

(***************************************************************************)
(* The session create_files makes for the dataset "resource": it is built  *)
(* by subscribe_doc(&resources, String::from("resources")).                *)
(***************************************************************************)
InitResource ==
    /\ Fresh
    /\ table_name = SessionName("resource")
    /\ budget = MaxEvents
    /\ focus = 1
    /\ other = FreshOther("nodes", 0)
    /\ RegistryIdle
    /\ FacadeIdle

SpecResource == InitResource /\ [][Next]_vars

(***************************************************************************)
(* create_files together with the task of the dataset it opens first.      *)
(* The session variables are those of that dataset; its task exists from   *)
(* the spawn in subscribe_doc on and then runs beside create_files.        *)
(***************************************************************************)
FirstTable == TableOrder[1]

Spawned == tasks[FirstTable] # <<>>

\* the spawned task of the first dataset takes one item of its stream
OwnTaskStep ==
    /\ Spawned
    /\ \/ \E ev \in TwoInsertEvents : InsertRemote(ev)
       \/ \E ev \in ContentReadyEvents : ContentReady(ev)
       \/ InsertRemoteLocked
       \/ ContentReadyLocked
       \/ ContentReadySent
       \/ PendingContentReady
       \/ SyncFinished

\* main.rs calls create_files with no ticket or with one for every dataset
InitSetup ==
    /\ Fresh
    /\ table_name = SessionName(FirstTable)
    /\ budget = SetupLen
    /\ focus = 1
    /\ other = FreshOther("nodes", 0)
    /\ tickets \in {{}, TableTypes}
    /\ table_pos = 1
    /\ result = "pending"
    /\ ticket_array = [t \in TableTypes |-> ""]
    /\ store_state = [t \in TableTypes |-> FALSE]
    /\ tasks = [t \in TableTypes |-> <<>>]
    /\ phase = "new"
    /\ loaded = 0
    /\ load_seen = 0
    /\ FacadeIdle

\* the revisions written so far to the document of dataset t
LocalWrites(t) == Cardinality({i \in DOMAIN log : log[i].doc = t})

\* the task of the first dataset takes the InsertLocal item the document
\* emits for a write of the load, which has been made by then; the handler
\* prints
TakeLocal ==
    /\ Spawned
    /\ CanTake
    /\ load_seen < LocalWrites(FirstTable)
    /\ nevents' = nevents + 1
    /\ last' = [type |-> "InsertLocal", path |-> "print", hash |-> <<>>,
                size |-> Zero]
    /\ load_seen' = load_seen + 1
    /\ UNCHANGED <<session, task, abort_calls, sent, budget, ghosts,
                   suspended>>
    /\ UNCHANGED <<tickets, table_pos, result, ticket_array, store_state,
                   tasks, phase, loaded>>
    /\ UNCHANGED <<other, focus, facade>>

NextSetup ==
    \/ OpenFails
    \/ OpenOk
    \/ SubscribeFails
    \/ SubscribeOk
    \/ StoreTicket
    \/ \E b \in LoadBlobLens : LoadWrite(b)
    \/ LoadDirFails
    \/ \E b \in LoadBlobLens, w \in BOOLEAN : LoadFails(b, w)
    \/ TableDone
    \/ Finish
    \/ OwnTaskStep
    \/ TakeLocal

SpecSetup == InitSetup /\ [][NextSetup]_vars

(***************************************************************************)
(* search() of the entity facade.  get_many yields a list of                *)
(* Result<Entry>; the content of an entry either resolves to bytes that    *)
(* decode, resolves to bytes that do not decode, or does not resolve.      *)
(***************************************************************************)
ContentKinds == {"resolved", "garbled", "unresolved"}

EntryItems ==
    [ok : {TRUE}, key : Keys, content : ContentKinds] \cup {[ok |-> FALSE]}

\* lists of at most n items
RECURSIVE ItemLists(_)
ItemLists(n) ==
    IF n = 0 THEN {<<>>}
    ELSE LET shorter == ItemLists(n - 1)
         IN  shorter \cup {Append(l, x) : l \in {m \in shorter : Len(m) = n - 1},
                                         x \in EntryItems}

\* Query::single_latest_per_key(): no key comes twice
LatestPerKey(l) ==
    \A i, j \in DOMAIN l :
        (i # j /\ l[i].ok /\ l[j].ok) => l[i].key # l[j].key

\* ToBytes::missing_file(id)
missing_file(id) == [id |-> id, missing |-> TRUE]

\* ToBytes::from_bytes of the bytes written for the entity of this key
from_bytes(id) == [id |-> id, missing |-> FALSE]

\* bytes_from_entry(entry)
bytes_from_entry(entry) ==
    IF ~Utf8Valid(entry.key) THEN [ok |-> FALSE, err |-> "invalid key"]
    ELSE CASE entry.content = "resolved"
                -> [ok |-> TRUE, entity |-> from_bytes(entry.key)]
           [] entry.content = "garbled"
                -> [ok |-> FALSE, err |-> "Invalid json data"]
           [] entry.content = "unresolved"
                -> [ok |-> TRUE, entity |-> missing_file(entry.key)]

\* the loop of search from item i on, entities holding what was pushed
RECURSIVE SearchLoop(_, _, _)
SearchLoop(items, i, entities) ==
    IF i > Len(items) \/ ~items[i].ok
    THEN [status |-> "Ok", entities |-> entities]
    ELSE LET r == bytes_from_entry(items[i])
         IN  IF r.ok
             THEN SearchLoop(items, i + 1, Append(entities, r.entity))
             ELSE [status |-> "Err", err |-> r.err]

\* search() when get_many succeeds
Search ==
    /\ search_result.status = "none"
    /\ search_result' = SearchLoop(entries, 1, <<>>)
    /\ UNCHANGED <<entries, log, insert_result, calls>>
    /\ UNCHANGED <<own, other, focus, registry>>

\* search() when get_many(..).await? fails
SearchGetManyFails ==
    /\ search_result.status = "none"
    /\ search_result' = [status |-> "Err", err |-> "get_many"]
    /\ UNCHANGED <<entries, log, insert_result, calls>>
    /\ UNCHANGED <<own, other, focus, registry>>

InitSearch ==
    /\ Fresh
    /\ table_name = "resources"
    /\ budget = 0
    /\ focus = 1
    /\ other = FreshOther("nodes", 0)
    /\ RegistryIdle
    /\ entries \in {l \in ItemLists(MaxEntries) : LatestPerKey(l)}
    /\ search_result = [status |-> "none"]
    /\ log = <<>>
    /\ insert_result = [op |-> "none"]
    /\ calls = 0

NextSearch ==
    \/ Search
    \/ SearchGetManyFails

SpecSearch == InitSearch /\ [][NextSearch]_vars

\* every field of the session has a value of its declared type
TypeOK ==
    /\ DOMAIN hashmap \subseteq STRING
    /\ \A k \in DOMAIN hashmap :
          /\ hashmap[k].key \in Seq(0..255)
          /\ Utf8Valid(hashmap[k].key)
          /\ hashmap[k].size \in U64Values
          /\ hashmap[k].table_name \in STRING
    /\ \A c \in {remaining_remote_num, queue_remote_num,
                 remaining_remote_bytes, queue_remote_bytes} : c \in U64Values
    /\ table_name \in STRING
    /\ init_successed \in BOOLEAN
    /\ init_blob_successed \in BOOLEAN
    /\ tx.rx_dropped \in BOOLEAN
    /\ tx.buf \in Seq(Seq(0..255))
    /\ \A i \in DOMAIN tx.buf : Utf8Valid(tx.buf[i])
    /\ handle \in {"None", "Some"}
    /\ task \in {"running", "cancelling", "ended", "panicked", "aborted"}
    /\ at \in {"idle", "lock", "send"}
    /\ pending_event.type \in {"None", "InsertRemote", "ContentReady"}
    /\ pending_event.type # "None"
       => pending_event.hash \in [1..32 -> 0..255]
    /\ pending_event.type = "InsertRemote"
       => /\ pending_event.key \in Seq(0..255)
          /\ pending_event.size \in U64Values
    /\ pending_send.key \in Seq(0..255)
    /\ Utf8Valid(pending_send.key)
    /\ pending_send.size \in U64Values
    /\ abort_calls \in Nat
    /\ nevents \in Nat
    /\ budget \in Nat
    /\ sent \in Seq(Seq(0..255))
    /\ \A h \in inserted \cup confirmed : h \in [1..32 -> 0..255]

(***************************************************************************)
(* Properties.                                                             *)
(***************************************************************************)
\* a is at least b and a - b = r, as integers
ExactSub(a, b, r) == U64Le(b, a) /\ r = fetch_sub(a, b)

\* C1: when an InsertRemote{D,S} is handled for a digest D whose InsertRemote
\* was indexed before with the same key and the same non-zero size S, with
\* no ContentReady{D} since (the entry is still there), the index keeps one
\* entry for D and the lifetime count and bytes do not rise a second time.
C1_IdempotentInsert ==
    [][( /\ InsertRemoteLocked
         /\ pending_event.hash \in inserted
         /\ pending_event.hash \notin confirmed
         /\ HasEntry(pending_event.hash)
         /\ hashmap[fmt_short(pending_event.hash)].key = pending_event.key
         /\ hashmap[fmt_short(pending_event.hash)].size = pending_event.size )
       => /\ DOMAIN hashmap' = DOMAIN hashmap
          /\ remaining_remote_num' = remaining_remote_num
          /\ remaining_remote_bytes' = remaining_remote_bytes]_vars

\* C2: in every reachable state the queue count is at most the lifetime
\* count.
C2_QueueLeLifetime == U64Le(queue_remote_num, remaining_remote_num)

\* C3: once the all-clear flag is set, no event changes any of the four
\* counters.
C3_PostAllClearFreeze == [][init_blob_successed => UNCHANGED counters]_vars

\* C4: an InsertRemote of non-zero size with a text key on a tracked session,
\* handled while the all-clear flag is false, adds 1 to both counts and the
\* size to both byte counters, whatever the value of init_successed.
C4_InsertCountsBeforeAllClear ==
    [][( /\ InsertRemoteLocked
         /\ table_name # "resource"
         /\ pending_event.size # Zero
         /\ Utf8Valid(pending_event.key)
         /\ ~init_blob_successed )
       => /\ remaining_remote_num' = fetch_add(remaining_remote_num, One)
          /\ queue_remote_num' = fetch_add(queue_remote_num, One)
          /\ remaining_remote_bytes' =
                fetch_add(remaining_remote_bytes, pending_event.size)
          /\ queue_remote_bytes' =
                fetch_add(queue_remote_bytes, pending_event.size)]_vars

\* C5: a ContentReady{D} handled while D's InsertRemote{D,S} is recorded in
\* the index, both before the all-clear, goes on to its send with the size
\* S, and the handler that returns from the send lowers the queue count by
\* exactly 1 and the queue bytes by exactly the size it holds; a
\* ContentReady{D} that finds no entry lowers nothing.
C5_ExactDecrement ==
    [][/\ ( /\ ContentReadyLocked
            /\ pending_event.hash \in inserted
            /\ HasEntry(pending_event.hash)
            /\ ~init_blob_successed )
          => /\ at' = "send"
             /\ pending_send'.size =
                   hashmap[fmt_short(pending_event.hash)].size
       /\ (ContentReadyLocked /\ ~HasEntry(pending_event.hash))
          => /\ UNCHANGED <<queue_remote_num, queue_remote_bytes>>
             /\ at' = "idle"
       /\ ContentReadySent
          => /\ ExactSub(queue_remote_num, One, queue_remote_num')
             /\ ExactSub(queue_remote_bytes, pending_send.size,
                         queue_remote_bytes')]_vars

\* C6: whenever ContentReady subtracts from the queue counters, each counter
\* is at least the amount subtracted.
C6_NoUnderflow ==
    [][ContentReadySent
       => /\ U64Le(One, queue_remote_num)
          /\ U64Le(pending_send.size, queue_remote_bytes)]_vars

\* C7: a ContentReady{D} handled when D is not in the index (no InsertRemote
\* of D was ever indexed, or D's entry is gone) changes neither the index,
\* the counters nor the flags, sends nothing and leaves the consumer task
\* running, ready for its next item.
C7_UnknownDigestSafety ==
    [][( /\ ContentReadyLocked
         /\ \/ pending_event.hash \notin inserted
            \/ ~HasEntry(pending_event.hash) )
       => /\ UNCHANGED <<hashmap, counters, flags, tx, sent>>
          /\ UNCHANGED <<handle, abort_calls, task>>
          /\ at' = "idle"]_vars

\* C8: no entry of the index ever has size 0, and a step that changes the
\* index (an entry added, removed or altered) or any of the four counters is
\* never the handling of an InsertRemote of size 0, in every flag state.
C8_TombstoneExclusion ==
    /\ [](\A k \in DOMAIN hashmap : hashmap[k].size # Zero)
    /\ [][\/ UNCHANGED <<hashmap, counters>>
          \/ ~(\E ev \in TombstoneEvents : InsertRemote(ev))]_vars

\* a tombstone was taken for a hash that is indexed, on a tracked session
C8_Witness ==
    /\ last.type = "InsertRemote"
    /\ last.path = "tombstone"
    /\ last.size = Zero
    /\ HasEntry(last.hash)
    /\ table_name # "resource"

\* C9: between two events, a hash has an entry in the index exactly when a
\* tracked non-tombstone InsertRemote for it was handled and its content was
\* not reported local (by a ContentReady, or by the InsertRemote's own
\* content status).
C9_PendingIndexInvariant ==
    at = "idle"
    => \A D \in Hashes : HasEntry(D) <=> (D \in inserted /\ D \notin confirmed)

\* C10: once the all-clear was taken, the consumer task has been aborted
\* exactly once, on its first delivery.
C10_OneShotAllClear ==
    last.type = "PendingContentReady"
    => /\ abort_calls = 1
       /\ task = "aborted"

\* C11: once the all-clear was taken, the consumer task takes no further
\* item of the stream.
C11_TaskLifetime == [][init_blob_successed => nevents' = nevents]_vars

\* C12: no event ends the consumer task: it never panics, and it leaves its
\* loop only when the stream itself has ended.
C12_ErrorsNeverAbort ==
    /\ task # "panicked"
    /\ task = "ended" => last.type = "StreamNone"

\* C13: a ContentReady that finds its hash indexed while the all-clear flag
\* is false goes on to send the recorded key, and the send places that key
\* in the channel, where a receiver can take it.
C13_NoLostNotification ==
    [][/\ ( /\ ContentReadyLocked
            /\ HasEntry(pending_event.hash)
            /\ ~init_blob_successed )
          => /\ at' = "send"
             /\ pending_send'.key =
                   hashmap[fmt_short(pending_event.hash)].key
       /\ ContentReadySent
          => /\ ~tx'.rx_dropped
             /\ tx'.buf = Append(tx.buf, pending_send.key)]_vars

\* C14: a ContentReady that finds its hash indexed while the all-clear flag
\* is true removes the entry, does not go on to the send and gives nothing
\* to the channel; a handler is in the send only by a ContentReady that
\* found its hash indexed while the flag was false; and a step that gives a
\* key to the channel is always the return of that send, with the flag
\* still false.
C14_NotifyOnlyBeforeAllClear ==
    [][/\ ( /\ ContentReadyLocked
            /\ HasEntry(pending_event.hash)
            /\ init_blob_successed )
          => /\ fmt_short(pending_event.hash) \notin DOMAIN hashmap'
             /\ at' = "idle"
             /\ sent' = sent
             /\ tx' = tx
       /\ (at # "send" /\ at' = "send")
          => /\ ContentReadyLocked
             /\ HasEntry(pending_event.hash)
             /\ ~init_blob_successed
       /\ (sent' # sent \/ tx' # tx)
          => /\ ContentReadySent
             /\ at = "send"
             /\ ~init_blob_successed]_vars

\* an indexed hash became ready after the all-clear: its entry is gone and
\* nothing was sent
C14_Witness ==
    /\ last.type = "ContentReady"
    /\ last.path = "frozen"
    /\ init_blob_successed
    /\ ~HasEntry(last.hash)
    /\ sent = <<>>

\* C16: both flags start false; init_successed changes only in SyncFinished
\* and init_blob_successed only in PendingContentReady, each of which sets
\* its flag; a flag that is true stays true.
C16_FlagsOneShot ==
    /\ [](nevents = 0 => ~init_successed /\ ~init_blob_successed)
    /\ [][/\ init_successed => init_successed'
          /\ init_blob_successed => init_blob_successed'
          /\ init_successed' # init_successed => SyncFinished
          /\ init_blob_successed' # init_blob_successed
             => PendingContentReady
          /\ SyncFinished => init_successed'
          /\ PendingContentReady => init_blob_successed']_vars

\* both flags were set and a later InsertRemote left them set
C16_Witness ==
    /\ init_successed
    /\ init_blob_successed
    /\ last.type = "InsertRemote"
    /\ last.path = "uncounted"

\* C15: no step lowers the lifetime count or the lifetime bytes, as unsigned
\* 64-bit integers.
C15_LifetimeMonotone ==
    [][/\ U64Le(remaining_remote_num, remaining_remote_num')
       /\ U64Le(remaining_remote_bytes, remaining_remote_bytes')]_vars

\* the two inserts of the scenario have been handled
Inserted2 == nevents = 2 /\ at = "idle"

\* the first ContentReady of the scenario has been handled
Ready1Done == nevents = 3 /\ at = "idle"

\* the second ContentReady of the scenario has been handled
Ready2Done == nevents = 5 /\ at = "idle"

\* C17: from a fresh session (empty index, counters 0, flags false), after
\* the two inserts the lifetime and queue counters are 2 / 1500; after the
\* first ContentReady the key k1 is in the channel for its receiver, the
\* queue is at 1 / 1000 and the lifetime counters are as they were; the
\* all-clear sets its flag; after the second ContentReady the index is
\* empty, the queue count is still 1 and nothing more is in the channel.
C17_EndToEnd ==
    /\ nevents = 0
       => /\ hashmap = <<>>
          /\ \A c \in {remaining_remote_num, remaining_remote_bytes,
                       queue_remote_num, queue_remote_bytes} : c = Zero
          /\ ~init_successed /\ ~init_blob_successed
    /\ Inserted2
       => /\ remaining_remote_num = U64(2)
          /\ remaining_remote_bytes = U64(1500)
          /\ queue_remote_num = U64(2)
          /\ queue_remote_bytes = U64(1500)
    /\ Ready1Done
       => /\ ~tx.rx_dropped
          /\ tx.buf = <<K1>>
          /\ queue_remote_num = U64(1)
          /\ queue_remote_bytes = U64(1000)
          /\ remaining_remote_num = U64(2)
          /\ remaining_remote_bytes = U64(1500)
    /\ nevents = 4 => init_blob_successed
    /\ Ready2Done
       => /\ hashmap = <<>>
          /\ queue_remote_num = U64(1)
          /\ tx.buf = <<K1>>

\* the index, counters, flags and channel of a session
Visible(r) ==
    <<r.hashmap, r.remaining_remote_num, r.remaining_remote_bytes,
      r.queue_remote_num, r.queue_remote_bytes, r.init_successed,
      r.init_blob_successed, r.tx>>

\* C18: a step in which the task of one of two sessions takes an item or
\* goes on in a handler leaves the index, counters, flags and channel of
\* the other session as they were, whatever the order in which the two
\* tasks run, also when one task runs while the other waits inside a
\* handler.
C18_SessionIsolation ==
    [][\A i \in {1, 2} :
          (i # focus \/ focus' # focus)
          => Visible(Sess(i))' = Visible(Sess(i))]_vars

\* one session has indexed an entry while the task of the other, which has
\* taken the all-clear, waits for its index lock inside a handler
C18_Witness ==
    /\ hashmap # <<>>
    /\ ~init_blob_successed
    /\ at = "idle"
    /\ other.at = "lock"
    /\ other.hashmap = <<>>
    /\ other.init_blob_successed

\* C19: once create_files has returned Ok, every one of the six datasets has
\* exactly one spawned consumer task, and that task owns the session made
\* for the dataset and the subscription of the dataset's own document.
C19_OneSessionPerTable ==
    result = "Ok"
    => \A t \in TableTypes :
          /\ Len(tasks[t]) = 1
          /\ tasks[t][1].stream = t
          /\ tasks[t][1].session = SessionName(t)

\* create_files returned Ok with some datasets imported and some created
C19_Witness ==
    /\ result = "Ok"
    /\ tickets = {"folder", "resource2"}
    /\ \A t \in TableTypes : store_state[t]

\* C20: when subscribe_doc fails for a dataset, create_files returns that
\* error at once and no task has been spawned for the dataset.
C20_SubscriptionFailure ==
    /\ [](result = "ErrSubscribe"
          => /\ tasks[CurrentTable] = <<>>
             /\ ~store_state[CurrentTable])
    /\ [][SubscribeFails
          => /\ result' = "ErrSubscribe"
             /\ tasks' = tasks
             /\ table_pos' = table_pos]_vars
    /\ [][result # "pending" => UNCHANGED registry]_vars

\* the subscription of the fourth dataset failed after three were set up
C20_Witness ==
    /\ result = "ErrSubscribe"
    /\ CurrentTable = "resource1"
    /\ tasks["resource1"] = <<>>
    /\ Len(tasks["resource"]) = 1

C22_ShutdownOperation ==
    result = "Ok"
    => \A t \in TableTypes :
          \A i \in DOMAIN tasks[t] : tasks[t][i].join_handle = "kept"

\* C23: a dataset gets a share ticket exactly when no import ticket was
\* given for it, and the ticket text create_files stores for a dataset it
\* has opened is empty exactly when the dataset was imported.
C23_TicketIffCreated ==
    /\ \A t \in TableTypes : NewTicket(t) = "Some" <=> t \notin tickets
    /\ \A i \in 1..(table_pos - 1) :
          ticket_array[TableOrder[i]] = "" <=> TableOrder[i] \in tickets

\* create_files returned Ok with two datasets imported
C23_Witness ==
    /\ result = "Ok"
    /\ tickets = {"node", "resource"}
    /\ ticket_array["node"] = ""
    /\ ticket_array["folder"] # ""

\* the entity search has to return for an entry whose key is text and whose
\* content either decodes or does not resolve
Expected(entry) ==
    IF entry.content = "unresolved" THEN missing_file(entry.key)
    ELSE from_bytes(entry.key)

\* the entries among the items, in order
RECURSIVE OkItems(_)
OkItems(l) ==
    IF l = <<>> THEN <<>>
    ELSE IF Head(l).ok THEN <<Head(l)>> \o OkItems(Tail(l))
         ELSE OkItems(Tail(l))

\* C24: when get_many succeeded, the content of some entry does not resolve,
\* every entry has a text key and no content that resolves fails to decode,
\* then search returns Ok, and its list holds
\* for every entry, in order, the placeholder of the entry's key when the
\* content does not resolve and the decoded entity when it does.
C24_PlaceholderOnMissing ==
    ( /\ search_result.status # "none"
      /\ ~(search_result.status = "Err" /\ search_result.err = "get_many")
      /\ \E i \in DOMAIN entries :
            entries[i].ok /\ entries[i].content = "unresolved"
      /\ \A i \in DOMAIN entries :
            entries[i].ok => /\ Utf8Valid(entries[i].key)
                             /\ entries[i].content # "garbled" )
    => /\ search_result.status = "Ok"
       /\ search_result.entities =
             [i \in DOMAIN OkItems(entries) |-> Expected(OkItems(entries)[i])]

\* C25: when get_many succeeded and some entry has a key that is not text,
\* search returns an error and no list.
C25_KeyDecodeFailsCall ==
    ( /\ search_result.status # "none"
      /\ \E i \in DOMAIN entries :
            entries[i].ok /\ ~Utf8Valid(entries[i].key) )
    => search_result.status = "Err"

\* C26: add_file and insert_folder return the size error exactly when the
\* serialized entity is longer than the maximum.
C26_RejectIffOverLimit ==
    insert_result.op \in {"add_file", "insert_folder"}
    => ( insert_result.status = "SizeLimitExceeded"
         <=> insert_result.len > MAX_FILE_SIZE )

\* C27: a call that returns the size error leaves the log as it was, and
\* no revision in the log is longer than the maximum.
C27_NoOverLimitWrite ==
    /\ [][( /\ insert_result' # insert_result
            /\ insert_result'.status = "SizeLimitExceeded" ) => log' = log]_vars
    /\ [](\A i \in DOMAIN log : log[i].len <= MAX_FILE_SIZE)

\* C28: an entry of the index keeps its key and size for as long as it is
\* indexed, whatever InsertRemote arrives for its hash, and a ContentReady
\* that notifies holds that entry's key and size over its send, hands the
\* key to the channel and subtracts the size from the queue bytes.
C28_FirstWriterWins ==
    /\ [][\A k \in (DOMAIN hashmap) \cap (DOMAIN hashmap') :
             hashmap'[k] = hashmap[k]]_vars
    /\ [][/\ (ContentReadyLocked /\ at' = "send")
             => pending_send' =
                   [key  |-> hashmap[fmt_short(pending_event.hash)].key,
                    size |-> hashmap[fmt_short(pending_event.hash)].size]
          /\ (at = "send" /\ at' = "send") => pending_send' = pending_send
          /\ ContentReadySent
             => /\ at = "send"
                /\ tx' = tx_send(tx, pending_send.key)
                /\ sent' = Append(sent, pending_send.key)
                /\ queue_remote_bytes' =
                      fetch_sub(queue_remote_bytes, pending_send.size)]_vars

\* a second InsertRemote with another size came for an indexed hash and the
\* entry still has the first size
C28_Witness ==
    /\ last.type = "InsertRemote"
    /\ last.path = "counted"
    /\ HasEntry(last.hash)
    /\ hashmap[fmt_short(last.hash)].size # last.size

\* the wrapping sum of the sizes of the entries under the keys ks
RECURSIVE IndexBytes(_)
IndexBytes(ks) ==
    IF ks = {} THEN Zero
    ELSE LET k == CHOOSE x \in ks : TRUE
         IN  fetch_add(IndexBytes(ks \ {k}), hashmap[k].size)

\* C29: before the all-clear and between two events, the queue count is the
\* number of entries of the index and the queue bytes are the sum of their
\* sizes.
C29_QueueMatchesIndex ==
    (~init_blob_successed /\ at = "idle")
    => /\ queue_remote_num = U64(Cardinality(DOMAIN hashmap))
       /\ queue_remote_bytes = IndexBytes(DOMAIN hashmap)

\* C30: on a session named "resource" the index is empty, the four counters
\* are 0, no key was handed to the channel, and every InsertRemote took the
\* early return.
C30_ExcludedNoEffect ==
    table_name = "resource"
    => /\ hashmap = <<>>
       /\ \A c \in {remaining_remote_num, remaining_remote_bytes,
                    queue_remote_num, queue_remote_bytes} : c = Zero
       /\ sent = <<>>
       /\ tx.buf = <<>>
       /\ inserted = {}
       /\ last.type = "InsertRemote" => last.path = "excluded"

\* an excluded session has taken several items, the last a non-empty
\* InsertRemote
C30_Witness ==
    /\ table_name = "resource"
    /\ nevents > 1
    /\ last.type = "InsertRemote"
    /\ last.size # Zero
    /\ last.path = "excluded"

\* C31: on the session create_files makes for the dataset "resource", no
\* step of the handling of an InsertRemote changes the index or any of the
\* four counters.
C31_ResourceNotTracked ==
    [][( /\ last' # last
         /\ last'.type = "InsertRemote" )
       => UNCHANGED <<hashmap, counters>>]_vars

\* C32: InsertLocal, NeighborUp and NeighborDown leave the session, its
\* task and what was handed to the channel as they were; SyncFinished sets
\* init_successed and leaves everything else of the session as it was.
C32_InfoEventFrame ==
    [][\/ UNCHANGED nevents
       \/ /\ last'.type \in InfoEventTypes
             => UNCHANGED <<session, task, abort_calls, sent>>
          /\ last'.type = "SyncFinished"
             => /\ init_successed'
                /\ UNCHANGED <<hashmap, counters, table_name,
                               init_blob_successed, tx, handle, task,
                               abort_calls, sent>>]_vars

\* an informational event was taken while entries were pending
C32_Witness ==
    /\ last.type \in InfoEventTypes
    /\ hashmap # <<>>
    /\ queue_remote_num # Zero
    /\ ~init_successed

\* C33: an InsertRemote that is indexed for a hash not indexed before adds
\* an entry, and a ContentReady for a hash that was never indexed removes
\* no entry and does not go on to a send.
C33_DistinctDigests ==
    [][/\ (InsertRemoteLocked /\ pending_event.hash \notin inserted)
          => Cardinality(DOMAIN hashmap') = Cardinality(DOMAIN hashmap) + 1
       /\ (ContentReadyLocked /\ pending_event.hash \notin inserted)
          => /\ hashmap' = hashmap
             /\ at' = "idle"]_vars

\* C34: when search returns Ok, no item of the enumeration is an error and
\* the list has one entity for each item.
C34_SearchComplete ==
    search_result.status = "Ok"
    => /\ \A i \in DOMAIN entries : entries[i].ok
       /\ Len(search_result.entities) = Len(entries)

====
